---- MODULE Spec2Model ----
(***************************************************************************)
(* Model of src/src/ext4_rs_shim.rs: the block address translator          *)
(* (Ext4Disk::read_offset / write_offset over a 512-byte sector device)    *)
(* and the VFS node adapter (Ext4FileWrapper) over the ext4 engine.        *)
(***************************************************************************)
EXTENDS Integers, Sequences, FiniteSets, TLC

(***************************************************************************)
(* Program constants.                                                      *)
(***************************************************************************)
BLOCK_SIZE == 4096
SECTOR_SIZE == 512

(***************************************************************************)
(* Bounds of the model.                                                    *)
(***************************************************************************)
NumSectors == 17
MaxWrites == 1
MaxEntries == 2

(***************************************************************************)
(* Inputs.  Device bytes are 1..97, buffer bytes are 101..247, so a zero   *)
(* byte in a result is always a byte the translator made up.               *)
(***************************************************************************)
DevByteAt(p) == (p % 97) + 1
BufByteAt(tag, j) == 101 + 50 * tag + (j % 47)
MkBuf(tag, n) == [j \in 1..n |-> BufByteAt(tag, j - 1)]
InitDevice == [s \in 0..(NumSectors - 1) |->
                 [b \in 1..SECTOR_SIZE |-> DevByteAt(s * SECTOR_SIZE + (b - 1))]]
WriteLens == {0, 1, 200, 511, 512, 513, 700, 1024, 4200}
WriteOffsets == {0, 300, 512}
ReadOffsets == {0, 300, 512, 4096, 4608}

Zeros(n) == [j \in 1..n |-> 0]

(***************************************************************************)
(* State.                                                                  *)
(***************************************************************************)
VARIABLES
  device,    \* sector index -> 512 bytes: the sector device's content
  pre,       \* the device content before the last write_offset call
  rbuf,      \* the buffer returned by the last read_offset call
  ioLog,     \* the sector operations issued by the last call
  call,      \* the last call: [op, offset, buf]
  lastw,     \* the last write_offset that returned: [valid, offset, buf]
  panicked,  \* a fatal failure (panic) happened
  nwrites,   \* number of write_offset calls so far
  \* concurrent write_offset calls
  wargs,     \* writer -> [offset, buf]: the arguments of its call
  wpc,       \* writer -> position in write_offset
  wi,        \* writer -> loop index i
  wtotal,    \* writer -> total_bytes_written
  wdata,     \* writer -> its local sector buffer `data`
  \* the node adapter, one call at a time
  ncall,     \* the last VFS call: [op, path, flags]
  nres,      \* what it returned: [kind, err, entries]
  elog,      \* the engine calls it made, in order
  sess,      \* the inode of the node's file session
  \* concurrent calls on one node adapter
  lk,        \* holder of the node's file-session lock, 0 when free
  top,       \* thread -> the VFS operation it runs
  tflags,    \* thread -> the flags argument of its open call
  tpc        \* thread -> position in that operation

diskVars == <<device, pre, rbuf, ioLog, call, lastw, nwrites>>
writerVars == <<wargs, wpc, wi, wtotal, wdata>>
nodeVars == <<ncall, nres, elog, sess>>
lockVars == <<lk, top, tflags, tpc>>
vars == <<diskVars, writerVars, nodeVars, lockVars, panicked>>

(***************************************************************************)
(* The sector device: devices::BlockDriver read_blocks / write_blocks.     *)
(***************************************************************************)
read_blocks(dev, id) == dev[id]
write_blocks(dev, id, data) == [dev EXCEPT ![id] = data]

(***************************************************************************)
(* Ext4Disk::read_offset.  One iteration of the loop copies                *)
(* data[offset_in_block .. offset_in_block + bytes_to_copy) to             *)
(* buf[total_bytes_read ..); the buffer starts as 4096 zero bytes.         *)
(***************************************************************************)
RECURSIVE ReadLoop(_, _, _, _, _, _)
ReadLoop(dev, start_block_id, i, buf, total_bytes_read, offset_in_block) ==
  IF i = BLOCK_SIZE \div 512 THEN buf
  ELSE LET data == read_blocks(dev, start_block_id + i)
           bytes_to_copy == IF total_bytes_read = 0 THEN 512 - offset_in_block ELSE 512
           buf_start == total_bytes_read
           buf_end == buf_start + bytes_to_copy
           buf2 == [k \in 1..BLOCK_SIZE |->
                      IF k > buf_start /\ k <= buf_end
                      THEN data[offset_in_block + (k - buf_start)]
                      ELSE buf[k]]
       IN ReadLoop(dev, start_block_id, i + 1, buf2,
                   total_bytes_read + bytes_to_copy, 0)

read_offset(dev, offset) ==
  ReadLoop(dev, offset \div 512, 0, Zeros(BLOCK_SIZE), 0, offset % 512)

ReadLog(offset) == [i \in 1..(BLOCK_SIZE \div 512) |->
                      [op |-> "read", sector |-> (offset \div 512) + i - 1]]

(***************************************************************************)
(* Ext4Disk::write_offset.                                                 *)
(***************************************************************************)
\* the sector buffer of one iteration before the copy: the sector read from
\* the device when the whole write is shorter than 512 bytes, zeros otherwise
SectorBase(dev, id, bytes_to_write) ==
  IF bytes_to_write < 512 THEN read_blocks(dev, id) ELSE Zeros(512)

BufEnd(buf_start, bytes_to_write) ==
  IF buf_start + 512 > bytes_to_write THEN bytes_to_write ELSE buf_start + 512

\* a copy that always takes the head of buf
CopyInFromHead(data, offset_in_block, buf, buf_start, buf_end) ==
  [k \in 1..512 |->
     IF k > offset_in_block /\ k <= offset_in_block + (buf_end - buf_start)
     THEN buf[k - offset_in_block]
     ELSE data[k]]

\* data[offset_in_block..offset_in_block + bytes_to_copy]
\*     .copy_from_slice(&buf[buf_start..buf_end])
CopyIn(data, offset_in_block, buf, buf_start, buf_end) ==
  [k \in 1..512 |->
     IF k > offset_in_block /\ k <= offset_in_block + (buf_end - buf_start)
     THEN buf[buf_start + (k - offset_in_block)]
     ELSE data[k]]

IterLog(id, bytes_to_write) ==
  IF bytes_to_write < 512
  THEN <<[op |-> "read", sector |-> id], [op |-> "write", sector |-> id]>>
  ELSE <<[op |-> "write", sector |-> id]>>

\* a sector index that forgets the start sector
current_block_id_no_start(start_block_id, i) == i

\* let current_block_id = start_block_id + i
current_block_id_of(start_block_id, i) == start_block_id + i

RECURSIVE WriteLoop(_, _, _, _, _, _)
WriteLoop(dev, log, start_block_id, i, buf, total_bytes_written) ==
  LET bytes_to_write == Len(buf) IN
  IF i = (bytes_to_write + 511) \div 512 THEN [dev |-> dev, log |-> log, panic |-> FALSE]
  ELSE LET current_block_id == current_block_id_of(start_block_id, i)
           data == SectorBase(dev, current_block_id, bytes_to_write)
           buf_start == total_bytes_written
           buf_end == BufEnd(buf_start, bytes_to_write)
           data2 == CopyIn(data, 0, buf, buf_start, buf_end)
       IN WriteLoop(write_blocks(dev, current_block_id, data2),
                    log \o IterLog(current_block_id, bytes_to_write),
                    start_block_id, i + 1, buf,
                    total_bytes_written + (buf_end - buf_start))

\* a write without the alignment assertion: it lands on the sector that
\* contains the offset
write_offset_unchecked(dev, offset, buf) ==
  WriteLoop(dev, <<>>, offset \div 512, 0, buf, 0)

\* assert_eq!(offset_in_block, 0) comes before the loop
write_offset(dev, offset, buf) ==
  IF offset % 512 # 0
  THEN [dev |-> dev, log |-> <<>>, panic |-> TRUE]
  ELSE WriteLoop(dev, <<>>, offset \div 512, 0, buf, 0)

(***************************************************************************)
(* Sequential use of the translator.                                       *)
(***************************************************************************)
NoCall == [op |-> "none", offset |-> 0, buf |-> <<>>]
NoWrite == [valid |-> FALSE, offset |-> 0, buf |-> <<>>]

\* the parts of the state a specification does not use
DiskIdle ==
  /\ pre = <<>>
  /\ rbuf = <<>>
  /\ ioLog = <<>>
  /\ call = NoCall
  /\ lastw = NoWrite
  /\ nwrites = 0
WritersIdle ==
  /\ wargs = <<>>
  /\ wpc = <<>>
  /\ wi = <<>>
  /\ wtotal = <<>>
  /\ wdata = <<>>
NodeIdle ==
  /\ ncall = [op |-> "none", path |-> "", flags |-> {}]
  /\ nres = [kind |-> "none", err |-> "", entries |-> <<>>]
  /\ elog = <<>>
  /\ sess = 0
LockIdle ==
  /\ lk = 0
  /\ tflags = <<>>
  /\ top = <<>>
  /\ tpc = <<>>

Init ==
  /\ device = InitDevice
  /\ pre = InitDevice
  /\ rbuf = <<>>
  /\ ioLog = <<>>
  /\ call = NoCall
  /\ lastw = NoWrite
  /\ panicked = FALSE
  /\ nwrites = 0
  /\ WritersIdle /\ NodeIdle /\ LockIdle

ReadOffset(offset) ==
  /\ ~panicked
  /\ (offset \div 512) + (BLOCK_SIZE \div 512) <= NumSectors
  /\ rbuf' = read_offset(device, offset)
  /\ ioLog' = ReadLog(offset)
  /\ call' = [op |-> "read", offset |-> offset, buf |-> <<>>]
  /\ UNCHANGED <<device, pre, lastw, panicked, nwrites>>
  /\ UNCHANGED <<writerVars, nodeVars, lockVars>>

WriteOffset(offset, buf) ==
  /\ ~panicked
  /\ nwrites < MaxWrites
  /\ (offset \div 512) + ((Len(buf) + 511) \div 512) <= NumSectors
  /\ LET r == write_offset(device, offset, buf) IN
       /\ device' = r.dev
       /\ ioLog' = r.log
       /\ panicked' = (panicked \/ r.panic)
       /\ lastw' = IF r.panic THEN lastw
                   ELSE [valid |-> TRUE, offset |-> offset, buf |-> buf]
  /\ pre' = device
  /\ rbuf' = <<>>
  /\ call' = [op |-> "write", offset |-> offset, buf |-> buf]
  /\ nwrites' = nwrites + 1
  /\ UNCHANGED <<writerVars, nodeVars, lockVars>>

\* the n-th write of a run carries its own byte pattern
Next ==
  \/ \E offset \in ReadOffsets : ReadOffset(offset)
  \/ \E offset \in WriteOffsets, n \in WriteLens :
       WriteOffset(offset, MkBuf(nwrites % 3, n))

Spec == Init /\ [][Next]_vars

(***************************************************************************)
(* Concurrent write_offset calls.  Each writer runs the code of            *)
(* write_offset; one step is one sector operation of the device            *)
(* (read_blocks or write_blocks) together with the local computation that  *)
(* precedes it.  Nothing in the translator orders the steps of two calls.  *)
(***************************************************************************)
Writers == {1, 2}
ConcOffsets == {0, 300, 512}
ConcLens == {50, 100, 512, 700}

NumSect(buf) == (Len(buf) + 511) \div 512

InitWriters ==
  /\ device = InitDevice
  /\ DiskIdle
  /\ panicked = FALSE
  /\ wargs \in [Writers -> [offset : ConcOffsets, len : ConcLens]]
  /\ wpc = [w \in Writers |-> "start"]
  /\ wi = [w \in Writers |-> 0]
  /\ wtotal = [w \in Writers |-> 0]
  /\ wdata = [w \in Writers |-> Zeros(512)]
  /\ NodeIdle /\ LockIdle

WBuf(w) == MkBuf(w, wargs[w].len)
WCur(w) == current_block_id_of(wargs[w].offset \div 512, wi[w])

\* lines 69-77: device lookup, the alignment assertion, the loop variables
WStart(w) ==
  /\ wpc[w] = "start"
  /\ IF wargs[w].offset % 512 # 0
     THEN /\ panicked' = TRUE
          /\ wpc' = [wpc EXCEPT ![w] = "failed"]
     ELSE /\ UNCHANGED panicked
          /\ wpc' = [wpc EXCEPT ![w] = "loop"]
  /\ UNCHANGED <<device, wargs, wi, wtotal, wdata>>
  /\ UNCHANGED <<pre, rbuf, ioLog, call, lastw, nwrites, nodeVars, lockVars>>

\* lines 82-87: data = [0; 512], and device.read_blocks when the write is
\* shorter than a sector
WRead(w) ==
  /\ wpc[w] = "loop"
  /\ wi[w] < NumSect(WBuf(w))
  /\ wdata' = [wdata EXCEPT ![w] = SectorBase(device, WCur(w), Len(WBuf(w)))]
  /\ wpc' = [wpc EXCEPT ![w] = "write"]
  /\ UNCHANGED <<device, wargs, wi, wtotal, panicked>>
  /\ UNCHANGED <<pre, rbuf, ioLog, call, lastw, nwrites, nodeVars, lockVars>>

\* lines 89-102: the copy into data, device.write_blocks, the loop variables
WWrite(w) ==
  /\ wpc[w] = "write"
  /\ LET buf == WBuf(w)
         buf_start == wtotal[w]
         buf_end == BufEnd(buf_start, Len(buf))
     IN /\ device' = write_blocks(device, WCur(w),
                                  CopyIn(wdata[w], 0, buf, buf_start, buf_end))
        /\ wtotal' = [wtotal EXCEPT ![w] = buf_start + (buf_end - buf_start)]
  /\ wi' = [wi EXCEPT ![w] = wi[w] + 1]
  /\ wpc' = [wpc EXCEPT ![w] = "loop"]
  /\ UNCHANGED <<wargs, wdata, panicked>>
  /\ UNCHANGED <<pre, rbuf, ioLog, call, lastw, nwrites, nodeVars, lockVars>>

\* the loop ends and write_offset returns
WReturn(w) ==
  /\ wpc[w] = "loop"
  /\ wi[w] = NumSect(WBuf(w))
  /\ wpc' = [wpc EXCEPT ![w] = "done"]
  /\ UNCHANGED <<device, wargs, wi, wtotal, wdata, panicked>>
  /\ UNCHANGED <<pre, rbuf, ioLog, call, lastw, nwrites, nodeVars, lockVars>>

NextWriters ==
  \E w \in Writers : WStart(w) \/ WRead(w) \/ WWrite(w) \/ WReturn(w)

SpecWriters == InitWriters /\ [][NextWriters]_vars

\* the device after the two calls run one after the other, first a then b
Serial(a, b) ==
  write_offset(write_offset(InitDevice, wargs[a].offset, WBuf(a)).dev,
               wargs[b].offset, WBuf(b)).dev

\* every call has returned or failed
AllDone == \A w \in DOMAIN wpc : wpc[w] \in {"done", "failed"}
\* the sectors a call accesses: none when the assertion fails
Touched(w) ==
  IF wargs[w].offset % 512 # 0 THEN {}
  ELSE {(wargs[w].offset \div 512) + j : j \in 0..(NumSect(WBuf(w)) - 1)}

\* C10 as stated: whatever the interleaving of the sector operations of two
\* concurrent write_offset calls, the final device content is that of the
\* two calls run one after the other in some order.
C10_Serializable ==
  (wpc # <<>> /\ AllDone) => device \in {Serial(1, 2), Serial(2, 1)}

\* C10 amended: two concurrent write_offset calls that touch no common
\* sector leave the device as the two calls run one after the other would,
\* in either order.
C10_DisjointSerializable ==
  (wpc # <<>> /\ AllDone /\ Touched(1) \cap Touched(2) = {}) =>
    /\ device = Serial(1, 2)
    /\ device = Serial(2, 1)

\* both calls finished, a short write on sector 0 and a two-sector write
\* starting at sector 1
C10_Witness ==
  /\ wpc # <<>> /\ AllDone
  /\ wargs[1].offset = 0 /\ wargs[1].len = 100
  /\ wargs[2].offset = 512 /\ wargs[2].len = 700
  /\ device[0][1] = BufByteAt(1, 0)
  /\ device[1][1] = BufByteAt(2, 0)

(***************************************************************************)
(* Properties of the translator.                                           *)
(***************************************************************************)
DevBytes == NumSectors * SECTOR_SIZE
ByteOf(dev, p) == dev[p \div SECTOR_SIZE][(p % SECTOR_SIZE) + 1]

\* C1: read_offset(offset) returns exactly 4096 bytes and byte k of the
\* result is the device byte at absolute position offset + k, for every
\* offset, aligned or not.
C1_ReadReconstructs ==
  call.op = "read" =>
    /\ Len(rbuf) = BLOCK_SIZE
    /\ \A k \in 0..(BLOCK_SIZE - 1) :
         call.offset + k < DevBytes => rbuf[k + 1] = ByteOf(device, call.offset + k)

\* C2: after write_offset(offset, buf) at an aligned offset every device
\* byte outside [offset, offset + len(buf)) has its pre-write value, and no
\* sector outside start_sector .. start_sector + ceil(len/512) - 1 is
\* accessed.
C2_WriteFrame ==
  (call.op = "write" /\ call.offset % SECTOR_SIZE = 0) =>
    /\ \A p \in 0..(DevBytes - 1) :
         (p < call.offset \/ p >= call.offset + Len(call.buf))
            => ByteOf(device, p) = ByteOf(pre, p)
    /\ \A j \in 1..Len(ioLog) :
         /\ ioLog[j].sector >= call.offset \div SECTOR_SIZE
         /\ ioLog[j].sector
              < (call.offset \div SECTOR_SIZE) + ((Len(call.buf) + 511) \div 512)

\* C3: after write_offset(offset, b) at an aligned offset, with no write in
\* between, the block reads read_offset(offset), read_offset(offset + 4096),
\* ... return b at every position of [offset, offset + len(b)).
C3_RoundTrip ==
  (call.op = "read" /\ lastw.valid /\ call.offset >= lastw.offset
     /\ (call.offset - lastw.offset) % BLOCK_SIZE = 0) =>
    LET base == call.offset - lastw.offset IN
      \A k \in 0..(BLOCK_SIZE - 1) :
        base + k < Len(lastw.buf) => rbuf[k + 1] = lastw.buf[base + k + 1]

\* a multi-block buffer was written and its second block was read back
C3_Witness ==
  /\ call.op = "read" /\ lastw.valid
  /\ Len(lastw.buf) > BLOCK_SIZE
  /\ call.offset = lastw.offset + BLOCK_SIZE
  /\ rbuf[1] = lastw.buf[BLOCK_SIZE + 1]

\* C4: write_offset at an offset that is not a multiple of 512 fails fatally
\* before any sector operation: nothing is read or written and the device
\* is as before (in particular not written at the rounded-down sector).
C4_MisalignedRejected ==
  (call.op = "write" /\ call.offset % SECTOR_SIZE # 0) =>
    /\ panicked
    /\ ioLog = <<>>
    /\ device = pre

\* a non-empty write at offset 300 was attempted
C4_Witness ==
  /\ call.op = "write" /\ call.offset = 300 /\ Len(call.buf) = 700
  /\ panicked

(***************************************************************************)
(* The node adapter Ext4FileWrapper, one VFS call at a time.  The engine   *)
(* (ext4_rs) is outside the adapter: the result of each engine call is     *)
(* any of the results the engine can report.                               *)
(***************************************************************************)
O_RDONLY == {}
O_WRONLY == {"O_WRONLY"}
O_RDWR == {"O_RDWR"}
O_CREAT == {"O_CREAT"}
O_TRUNC == {"O_TRUNC"}
O_APPEND == {"O_APPEND"}
AllFlags == SUBSET (O_WRONLY \cup O_RDWR \cup O_CREAT \cup O_TRUNC \cup O_APPEND)
\* OpenFlags::contains
Contains(flags, f) == f \subseteq flags

Paths == {"/a", "/b"}
EngineResults == {"OK", "ENOENT", "EALLOCFIAL", "ELINKFIAL", "EIO"}
SessionInodes == {2, 12}
DirEntryTypes == {"EXT4_DE_REG_FILE", "EXT4_DE_DIR", "EXT4_DE_CHRDEV",
                  "EXT4_DE_BLKDEV", "EXT4_DE_SOCK", "EXT4_DE_SYMLINK"}
\* the directories the engine can yield: up to MaxEntries entries, entry i
\* named by its position, of any supported on-disk type
EntryNames == <<"e1", "e2", "e3", "e4">>
EntryLists ==
  UNION {{[i \in 1..n |-> [name |-> EntryNames[i], inode |-> 10 + i, file_type |-> ty[i]]]
            : ty \in [1..n -> DirEntryTypes]} : n \in 0..MaxEntries}

ECall(fn, path, mode, create, res) ==
  [fn |-> fn, path |-> path, mode |-> mode, create |-> create, res |-> res,
   inode |-> 0, entries |-> <<>>]
EReadDir(inode, v) ==
  [fn |-> "read_dir_entry", path |-> "", mode |-> "", create |-> FALSE,
   res |-> "OK", inode |-> inode, entries |-> v]

Ok == [kind |-> "Ok", err |-> "", entries |-> <<>>]
Err(e) == [kind |-> "Err", err |-> e, entries |-> <<>>]
Panic == [kind |-> "panic", err |-> "", entries |-> <<>>]

\* lines 159-163
create_of(flags) == Contains(flags, O_CREAT)

\* lines 166-174: the arms of `match _flags`, tried in order.  In a pattern
\* `A | B | C` is an alternative of the three constants, so an arm matches
\* when the bitset equals ONE of them.
parse_flags(flags) ==
  IF flags = O_RDONLY THEN "r"
  ELSE IF flags = O_WRONLY \/ flags = O_CREAT \/ flags = O_TRUNC THEN "w"
  ELSE IF flags = O_WRONLY \/ flags = O_CREAT \/ flags = O_APPEND THEN "a"
  ELSE IF flags = O_RDWR THEN "r+"
  ELSE IF flags = O_RDWR \/ flags = O_CREAT \/ flags = O_TRUNC THEN "w+"
  ELSE IF flags = O_RDWR \/ flags = O_CREAT \/ flags = O_APPEND THEN "a+"
  ELSE "unreachable"

\* lines 181-187
map_open_error(e) ==
  CASE e = "ENOENT" -> "FileNotFound"
    [] e = "EALLOCFIAL" -> "UnexpectedEof"
    [] e = "ELINKFIAL" -> "UnexpectedEof"
    [] OTHER -> "UnexpectedEof"

\* an open that drops the engine's result, as mkdir and touch do
open_result_dropped(r) == Ok

\* lines 180-193
open_result(r) == IF r # "OK" THEN Err(map_open_error(r)) ELSE Ok

\* lines 298-307
map_ext4_type(value) ==
  CASE value = "EXT4_DE_REG_FILE" -> "File"
    [] value = "EXT4_DE_DIR" -> "Directory"
    [] value = "EXT4_DE_CHRDEV" -> "File"
    [] value = "EXT4_DE_BLKDEV" -> "File"
    [] value = "EXT4_DE_SOCK" -> "File"
    [] value = "EXT4_DE_SYMLINK" -> "LINK"

\* lines 244-257: `entries` is created empty and never used again; each
\* mapped entry is pushed onto v, the vector the engine returned, and v is
\* what read_dir returns.  (As written the function does not type-check:
\* `ile_type` is undefined and v holds engine entries.  The model follows
\* the data flow of the text.)
RECURSIVE ReadDirLoop(_, _, _, _)
ReadDirLoop(v0, idx, v, entries) ==
  IF idx > Len(v0) THEN v
  ELSE LET i == v0[idx]
           file_type == map_ext4_type(i.file_type)
           entry == [name |-> i.name, inode |-> i.inode, file_type |-> file_type]
       IN ReadDirLoop(v0, idx + 1, Append(v, entry), entries)

read_dir(v) == ReadDirLoop(v, 1, v, <<>>)

InitNode ==
  /\ device = <<>>
  /\ DiskIdle
  /\ panicked = FALSE
  /\ WritersIdle /\ LockIdle
  /\ ncall = [op |-> "none", path |-> "", flags |-> {}]
  /\ nres = [kind |-> "none", err |-> "", entries |-> <<>>]
  /\ elog = <<>>
  /\ sess \in SessionInodes

\* lines 156-194
VfsOpen(path, flags) ==
  /\ ~panicked
  /\ ncall' = [op |-> "open", path |-> path, flags |-> flags]
  /\ IF parse_flags(flags) = "unreachable"
     THEN /\ panicked' = TRUE
          /\ elog' = <<>>
          /\ nres' = Panic
     ELSE \E r \in EngineResults :
            /\ UNCHANGED panicked
            /\ elog' = <<ECall("ext4_open", path, parse_flags(flags),
                               create_of(flags), r)>>
            /\ nres' = open_result(r)
  /\ UNCHANGED <<sess, diskVars, writerVars, lockVars>>

\* lines 196-207
VfsMkdir(path) ==
  /\ ~panicked
  /\ ncall' = [op |-> "mkdir", path |-> path, flags |-> {}]
  /\ \E r1 \in EngineResults, r2 \in EngineResults :
       elog' = <<ECall("ext4_dir_mk", path, "", FALSE, r1),
                 ECall("ext4_open", path, "w", FALSE, r2)>>
  /\ nres' = Ok
  /\ UNCHANGED <<sess, panicked, diskVars, writerVars, lockVars>>

\* lines 229-236
VfsTouch(path) ==
  /\ ~panicked
  /\ ncall' = [op |-> "touch", path |-> path, flags |-> {}]
  /\ \E r \in EngineResults :
       elog' = <<ECall("ext4_open", path, "w+", TRUE, r)>>
  /\ nres' = Ok
  /\ UNCHANGED <<sess, panicked, diskVars, writerVars, lockVars>>

\* lines 238-258
VfsReadDir ==
  /\ ~panicked
  /\ ncall' = [op |-> "read_dir", path |-> "", flags |-> {}]
  /\ \E v \in EntryLists :
       /\ elog' = <<EReadDir(sess, v)>>
       /\ nres' = [kind |-> "Ok", err |-> "", entries |-> read_dir(v)]
  /\ UNCHANGED <<sess, panicked, diskVars, writerVars, lockVars>>

\* lines 209-227, 260-262: metadata, readat, writeat, rmdir, remove and
\* lookup are todo!(): a fatal failure before any engine call
TodoOps == {"metadata", "readat", "writeat", "rmdir", "remove", "lookup"}
VfsTodo(op) ==
  /\ ~panicked
  /\ ncall' = [op |-> op, path |-> "", flags |-> {}]
  /\ panicked' = TRUE
  /\ elog' = <<>>
  /\ nres' = Panic
  /\ UNCHANGED <<sess, diskVars, writerVars, lockVars>>

\* lines 264-266, 280-295: truncate, unlink, stat, statfs and utimes
\* return Ok(()) without an engine call
NoopOps == {"truncate", "unlink", "stat", "statfs", "utimes"}
VfsNoop(op) ==
  /\ ~panicked
  /\ ncall' = [op |-> op, path |-> "", flags |-> {}]
  /\ elog' = <<>>
  /\ nres' = Ok
  /\ UNCHANGED <<sess, panicked, diskVars, writerVars, lockVars>>

\* lines 268-278: resolve_link, link and sym_link return NotSupported
UnsupportedOps == {"resolve_link", "link", "sym_link"}
VfsUnsupported(op) ==
  /\ ~panicked
  /\ ncall' = [op |-> op, path |-> "", flags |-> {}]
  /\ elog' = <<>>
  /\ nres' = Err("NotSupported")
  /\ UNCHANGED <<sess, panicked, diskVars, writerVars, lockVars>>

NextNode ==
  \/ \E path \in Paths, flags \in AllFlags : VfsOpen(path, flags)
  \/ \E path \in Paths : VfsMkdir(path)
  \/ \E path \in Paths : VfsTouch(path)
  \/ VfsReadDir
  \/ \E op \in TodoOps : VfsTodo(op)
  \/ \E op \in NoopOps : VfsNoop(op)
  \/ \E op \in UnsupportedOps : VfsUnsupported(op)

SpecNode == InitNode /\ [][NextNode]_vars

(***************************************************************************)
(* Properties of the node adapter.                                         *)
(***************************************************************************)
\* the table of section 4.3
Recognized ==
  {O_RDONLY,
   O_WRONLY \cup O_CREAT \cup O_TRUNC,
   O_WRONLY \cup O_CREAT \cup O_APPEND,
   O_RDWR,
   O_RDWR \cup O_CREAT \cup O_TRUNC,
   O_RDWR \cup O_CREAT \cup O_APPEND}
TableMode(flags) ==
  CASE flags = O_RDONLY -> "r"
    [] flags = O_WRONLY \cup O_CREAT \cup O_TRUNC -> "w"
    [] flags = O_WRONLY \cup O_CREAT \cup O_APPEND -> "a"
    [] flags = O_RDWR -> "r+"
    [] flags = O_RDWR \cup O_CREAT \cup O_TRUNC -> "w+"
    [] flags = O_RDWR \cup O_CREAT \cup O_APPEND -> "a+"
TableCreate(flags) == flags \notin {O_RDONLY, O_RDWR}

\* C5: open translates each of the six flag combinations of the table to
\* its mode and create flag and hands them to the engine; every other
\* bitset fails fatally without an engine call.
C5_FlagTable ==
  ncall.op = "open" =>
    IF ncall.flags \in Recognized
    THEN /\ nres.kind # "panic"
         /\ Len(elog) = 1
         /\ elog[1].fn = "ext4_open"
         /\ elog[1].mode = TableMode(ncall.flags)
         /\ elog[1].create = TableCreate(ncall.flags)
    ELSE /\ nres.kind = "panic"
         /\ elog = <<>>

\* C6: open returns a node exactly when its engine open call succeeded;
\* an engine ENOENT gives FileNotFound and every other engine error
\* (allocation failure, link failure, anything else) gives UnexpectedEof.
C6_OpenErrorMapping ==
  ncall.op = "open" =>
    /\ nres.kind = "Ok" <=>
         (Len(elog) = 1 /\ elog[1].fn = "ext4_open" /\ elog[1].res = "OK")
    /\ \A j \in 1..Len(elog) :
         /\ elog[j].res = "ENOENT" => nres = Err("FileNotFound")
         /\ elog[j].res \notin {"OK", "ENOENT"} => nres = Err("UnexpectedEof")

\* an open with flags of the table whose engine call failed to allocate
C6_Witness ==
  /\ ncall.op = "open" /\ ncall.flags \in Recognized
  /\ Len(elog) = 1 /\ elog[1].res = "EALLOCFIAL"
  /\ nres = Err("UnexpectedEof")

\* C7: mkdir asks the engine to create the directory and then to open it,
\* touch asks it to open with mode "w+" and create true, and when one of
\* these engine calls fails the operation returns the mapped error
\* (FileNotFound for ENOENT, UnexpectedEof otherwise), not a node.
C7_MkdirTouchErrors ==
  (ncall.op \in {"mkdir", "touch"}) =>
    /\ ncall.op = "mkdir" =>
         /\ Len(elog) >= 1 /\ elog[1].fn = "ext4_dir_mk"
         /\ Len(elog) = 2 => elog[2].fn = "ext4_open"
    /\ ncall.op = "touch" =>
         /\ Len(elog) = 1 /\ elog[1].fn = "ext4_open"
         /\ elog[1].mode = "w+" /\ elog[1].create = TRUE
    /\ \A j \in 1..Len(elog) :
         elog[j].res # "OK" =>
           /\ nres.kind = "Err"
           /\ nres.err \in {"FileNotFound", "UnexpectedEof"}
           /\ (nres.err = "FileNotFound") =>
                \E m \in 1..Len(elog) : elog[m].res = "ENOENT"

\* the file type section 4.4 gives to an on-disk type
ContractType(ty) ==
  IF ty \in {"EXT4_DE_REG_FILE", "EXT4_DE_CHRDEV", "EXT4_DE_BLKDEV", "EXT4_DE_SOCK"}
  THEN "File"
  ELSE IF ty = "EXT4_DE_DIR" THEN "Directory" ELSE "LINK"

\* C8: read_dir returns exactly one entry per entry the engine yields for
\* the session's inode, in the engine's order, each with the engine entry's
\* name and inode number and the mapped file type.
C8_ReadDirFidelity ==
  ncall.op = "read_dir" =>
    /\ nres.kind = "Ok"
    /\ Len(elog) = 1 /\ elog[1].inode = sess
    /\ Len(nres.entries) = Len(elog[1].entries)
    /\ \A j \in 1..Len(elog[1].entries) :
         nres.entries[j] = [name |-> elog[1].entries[j].name,
                            inode |-> elog[1].entries[j].inode,
                            file_type |-> ContractType(elog[1].entries[j].file_type)]

(***************************************************************************)
(* Concurrent VFS calls on one node adapter.  A step is the acquisition of *)
(* the file-session lock, the start or the end of an engine call, or the   *)
(* return (which drops the lock guard).                                    *)
(***************************************************************************)
Threads == {1, 2}
Ops == {"open", "mkdir", "touch", "read_dir"}
             \cup TodoOps \cup NoopOps \cup UnsupportedOps

\* an adapter in which no operation takes the lock
uses_lock_never(op) == FALSE

\* line 239: read_dir is the one operation that locks self.inner
uses_lock(op) == op = "read_dir"

\* mkdir makes two engine calls (lines 197, 201); open, touch and read_dir
\* one; the other operations none
engine_calls(op) ==
  IF op = "mkdir" THEN 2
  ELSE IF op \in {"open", "touch", "read_dir"} THEN 1 ELSE 0

InitLock ==
  /\ device = <<>>
  /\ DiskIdle
  /\ panicked = FALSE
  /\ WritersIdle /\ NodeIdle
  /\ lk = 0
  /\ top = [t \in Threads |-> "none"]
  /\ tflags = [t \in Threads |-> {}]
  /\ tpc = [t \in Threads |-> "idle"]

\* the call fails fatally before any lock or engine call: the todo!()
\* operations, and open when no arm of its match accepts the flags (line 173)
fails_at_entry(op, flags) ==
  \/ op \in TodoOps
  \/ op = "open" /\ parse_flags(flags) = "unreachable"

\* the flags a call can carry: any bitset for open, none for the others
CallFlags(op) == IF op = "open" THEN AllFlags ELSE {{}}

TCall(t, op, flags) ==
  /\ tpc[t] = "idle"
  /\ top' = [top EXCEPT ![t] = op]
  /\ tflags' = [tflags EXCEPT ![t] = flags]
  /\ tpc' = [tpc EXCEPT ![t] =
               IF fails_at_entry(op, flags) THEN "failed"
               ELSE IF uses_lock(op) THEN "lock"
               ELSE IF engine_calls(op) = 0 THEN "ret"
               ELSE "call1"]
  /\ panicked' = (panicked \/ fails_at_entry(op, flags))
  /\ UNCHANGED <<lk, diskVars, writerVars, nodeVars>>

\* self.inner.lock(): waits until the lock is free
TLock(t) ==
  /\ tpc[t] = "lock"
  /\ lk = 0
  /\ lk' = t
  /\ tpc' = [tpc EXCEPT ![t] = "call1"]
  /\ UNCHANGED <<top, tflags, panicked, diskVars, writerVars, nodeVars>>

\* an engine call starts
TEnter(t) ==
  /\ tpc[t] \in {"call1", "call2"}
  /\ tpc' = [tpc EXCEPT ![t] = IF tpc[t] = "call1" THEN "in1" ELSE "in2"]
  /\ UNCHANGED <<lk, top, tflags, panicked, diskVars, writerVars, nodeVars>>

\* an engine call returns
TLeave(t) ==
  /\ tpc[t] \in {"in1", "in2"}
  /\ tpc' = [tpc EXCEPT ![t] =
               IF tpc[t] = "in1" /\ engine_calls(top[t]) = 2 THEN "call2" ELSE "ret"]
  /\ UNCHANGED <<lk, top, tflags, panicked, diskVars, writerVars, nodeVars>>

\* the operation returns; a lock guard it holds is dropped
TReturn(t) ==
  /\ tpc[t] = "ret"
  /\ tpc' = [tpc EXCEPT ![t] = "idle"]
  /\ lk' = IF lk = t THEN 0 ELSE lk
  /\ UNCHANGED <<top, tflags, panicked, diskVars, writerVars, nodeVars>>

NextLock ==
  \E t \in Threads :
    \/ \E op \in Ops : \E flags \in CallFlags(op) : TCall(t, op, flags)
    \/ TLock(t)
    \/ TEnter(t)
    \/ TLeave(t)
    \/ TReturn(t)

SpecLock == InitLock /\ [][NextLock]_vars

InEngine(t) == tpc[t] \in {"in1", "in2"}

\* C9 as stated: whichever two of open, mkdir, touch and read_dir run
\* concurrently on one node, each holds the node's lock during its engine
\* calls and their engine calls never overlap.
C9_AllSerialized ==
  tpc # <<>> =>
    /\ \A t \in Threads : InEngine(t) => lk = t
    /\ ~(InEngine(1) /\ InEngine(2))

\* C9 amended: read_dir holds the node's lock during its engine call, so
\* the engine calls of two concurrent read_dir calls on one node never
\* overlap; open, mkdir and touch never hold the lock.
C9_ReadDirSerialized ==
  tpc # <<>> =>
    /\ \A t \in Threads : (top[t] = "read_dir" /\ InEngine(t)) => lk = t
    /\ (top[1] = "read_dir" /\ top[2] = "read_dir") => ~(InEngine(1) /\ InEngine(2))
    /\ \A t \in Threads : top[t] \in {"open", "mkdir", "touch"} => lk # t

\* one read_dir is inside the engine while the other waits for the lock
C9_Witness ==
  /\ tpc # <<>>
  /\ top[1] = "read_dir" /\ tpc[1] = "in1"
  /\ top[2] = "read_dir" /\ tpc[2] = "lock"
  /\ lk = 1
====
